---- MODULE Spec2Model ----
(***************************************************************************)
(* DS_SQL.ipynb: a notebook session against the SQLite file testdb.sqlite. *)
(* The state is the database file (three tables, each with the schema it   *)
(* was created with and its rows), the DataFrames read from the CSV files, *)
(* the position of the notebook run, and the outcome of the last statement.*)
(* One action per SQL statement / Python call of the cells the properties  *)
(* are about.  The database file outlives a run: the notebook can be run   *)
(* again from the top against the file a previous run left behind.         *)
(*                                                                         *)
(* Prices are held in hundredths (6.95 is 695).  SQL NULL is NullNum in a  *)
(* numeric column and NullText in a text column.                           *)
(***************************************************************************)
EXTENDS Integers, Sequences, FiniteSets, TLC

VARIABLES db, frames, csv, pc, run, nAdHoc, last, out

vars == <<db, frames, csv, pc, run, nAdHoc, last, out>>

\* Bounds of the exploration.
MaxRuns == 2
MaxAdHoc == 1

Tables == {"customers", "products", "orders"}

NullNum == 0 - 1
NullText == "NULL"

TextCols == {"name", "billing_address", "billing_country",
             "delivery_address", "delivery_country"}

IsNullIn(row, c) == IF c \in TextCols THEN row[c] = NullText ELSE row[c] = NullNum

\* ------------------------------------------------------------------------
\* The engine as the notebook uses it.

\* Neither connection of the notebook issues PRAGMA foreign_keys = ON, so
\* both run with SQLite's default: foreign keys are declared, not enforced.
foreign_keys_on == TRUE
foreign_keys == FALSE

NoSchema == [cols |-> {}, notnull |-> {}, ipk |-> FALSE, fks |-> {}]

Absent == [exists |-> FALSE, schema |-> NoSchema, rows |-> <<>>]

\* The schema of the CREATE TABLE statements: every column NOT NULL, id an
\* INTEGER PRIMARY KEY in customers and products, two foreign keys in orders.
CustomersSchemaNoKey ==
    [cols |-> {"id", "name", "billing_address"},
     notnull |-> {"id", "name", "billing_address"},
     ipk |-> FALSE, fks |-> {}]
CustomersSchema ==
    [cols |-> {"id", "name", "billing_address"},
     notnull |-> {"id", "name", "billing_address"},
     ipk |-> TRUE, fks |-> {}]

ProductsSchemaNullable ==
    [cols |-> {"id", "price"}, notnull |-> {"id"},
     ipk |-> TRUE, fks |-> {}]
ProductsSchema ==
    [cols |-> {"id", "price"}, notnull |-> {"id", "price"},
     ipk |-> TRUE, fks |-> {}]

OrdersSchemaKeyed ==
    [cols |-> {"id", "customer_id", "product_id", "delivery_address"},
     notnull |-> {"id", "customer_id", "product_id", "delivery_address"},
     ipk |-> TRUE,
     fks |-> {<<"customer_id", "customers">>, <<"product_id", "products">>}]

OrdersSchema ==
    [cols |-> {"id", "customer_id", "product_id", "delivery_address"},
     notnull |-> {"id", "customer_id", "product_id", "delivery_address"},
     ipk |-> FALSE,
     fks |-> {<<"customer_id", "customers">>, <<"product_id", "products">>}]

DeclaredSchema(t) ==
    IF t = "customers" THEN CustomersSchema
    ELSE IF t = "products" THEN ProductsSchema
    ELSE OrdersSchema

\* The schema DataFrame.to_sql creates: the frame's columns, no constraint.
PandasSchema(frame) ==
    [cols |-> frame.cols, notnull |-> {}, ipk |-> FALSE, fks |-> {}]

Range(s) == {s[i] : i \in 1..Len(s)}

Ids(d, t) == {r.id : r \in Range(d[t].rows)}

MaxOf(S) == CHOOSE m \in S : \A x \in S : x <= m

\* An INTEGER PRIMARY KEY given NULL takes the next rowid.
NextRowid(tab) ==
    IF tab.rows = <<>> THEN 1 ELSE MaxOf({r.id : r \in Range(tab.rows)}) + 1

\* Rows of a rowid table whose key is id are kept in key order.
RECURSIVE InsertSorted(_, _)
InsertSorted(rows, r) ==
    IF rows = <<>> THEN <<r>>
    ELSE IF r.id < Head(rows).id THEN <<r>> \o rows
    ELSE <<Head(rows)>> \o InsertSorted(Tail(rows), r)

Ok(d) == [db |-> d, err |-> "none"]
Fail(d, e) == [db |-> d, err |-> e]

\* One row of an INSERT ... VALUES statement.
InsertRow(d, t, row) ==
    LET tab == d[t]
        s == tab.schema
        r == IF s.ipk /\ row.id = NullNum
             THEN [row EXCEPT !.id = NextRowid(tab)] ELSE row
    IN  IF ~tab.exists THEN Fail(d, "no such table")
        ELSE IF DOMAIN row # s.cols THEN Fail(d, "no such column")
        ELSE IF \E c \in s.notnull : ~(s.ipk /\ c = "id") /\ IsNullIn(r, c)
             THEN Fail(d, "NOT NULL")
        ELSE IF s.ipk /\ r.id \in Ids(d, t) THEN Fail(d, "UNIQUE")
        ELSE IF foreign_keys
                /\ \E f \in s.fks : /\ ~IsNullIn(r, f[1])
                                    /\ r[f[1]] \notin Ids(d, f[2])
             THEN Fail(d, "FOREIGN KEY")
        ELSE Ok([d EXCEPT ![t].rows =
                    IF s.ipk THEN InsertSorted(tab.rows, r)
                    ELSE Append(tab.rows, r)])

RECURSIVE InsertRows(_, _, _)
InsertRows(d, t, rows) ==
    IF rows = <<>> THEN Ok(d)
    ELSE LET first == InsertRow(d, t, Head(rows))
         IN  IF first.err # "none" THEN first
             ELSE InsertRows(first.db, t, Tail(rows))

\* INSERT INTO t VALUES (...), (...): all rows or none.
InsertStmtFirstRow(d, t, rows) ==
    IF rows = <<>> THEN Ok(d) ELSE InsertRows(d, t, <<Head(rows)>>)
InsertStmt(d, t, rows) ==
    LET res == InsertRows(d, t, rows)
    IN  IF res.err = "none" THEN res ELSE Fail(d, res.err)

\* Rows of other tables that reference a row of t through a foreign key.
Referenced(d, t) ==
    \E c \in Tables : \E f \in d[c].schema.fks :
        /\ f[2] = t
        /\ \E r \in Range(d[c].rows) : r[f[1]] \in Ids(d, t)

\* DROP TABLE IF EXISTS t.  With foreign keys enforced the drop deletes the
\* rows first and fails while another table's rows reference them.
DropTableNoop(d, t) == Ok(d)
DropTable(d, t) ==
    IF ~d[t].exists THEN Ok(d)
    ELSE IF foreign_keys /\ Referenced(d, t) THEN Fail(d, "FOREIGN KEY")
    ELSE Ok([d EXCEPT ![t] = Absent])

\* CREATE TABLE t (...).
CreateTable(d, t) ==
    IF d[t].exists THEN Fail(d, "already exists")
    ELSE Ok([d EXCEPT ![t] =
                [exists |-> TRUE, schema |-> DeclaredSchema(t), rows |-> <<>>]])

\* frame.to_sql(t, conn, index=False, if_exists="replace")
ToSqlAppend(d, t, frame) ==
    IF d[t].exists
    THEN Ok([d EXCEPT ![t].rows = d[t].rows \o frame.rows])
    ELSE Ok([d EXCEPT ![t] =
                [exists |-> TRUE, schema |-> PandasSchema(frame),
                 rows |-> frame.rows]])
ToSql(d, t, frame) ==
    LET dropped == DropTable(d, t)
    IN  IF dropped.err # "none" THEN dropped
        ELSE InsertStmt([dropped.db EXCEPT ![t] =
                            [exists |-> TRUE, schema |-> PandasSchema(frame),
                             rows |-> <<>>]],
                        t, frame.rows)

\* SELECT * FROM t
SelectAll(d, t) ==
    IF d[t].exists THEN [rows |-> d[t].rows, err |-> "none"]
    ELSE [rows |-> <<>>, err |-> "no such table"]

\* SQL comparison: NULL equals nothing.
SqlEq(a, b) == a # NullNum /\ b # NullNum /\ a = b

RECURSIVE SeqSum(_)
SeqSum(s) == IF s = <<>> THEN 0 ELSE Head(s) + SeqSum(Tail(s))

\* SUM(x): the sum of the non-NULL values, NULL when there is none.
SumAgg(values) ==
    LET NotNull(v) == v # NullNum
        kept == SelectSeq(values, NotNull)
    IN  IF kept = <<>> THEN NullNum ELSE SeqSum(kept)

\* orders AS o JOIN products AS p ON o.product_id = p.id, projected on
\* p.price: for each orders row in turn, the products rows it matches.
RECURSIVE JoinOnPricesAll(_, _)
JoinOnPricesAll(os, ps) ==
    IF os = <<>> THEN <<>>
    ELSE [j \in 1..Len(ps) |-> ps[j].price] \o JoinOnPricesAll(Tail(os), ps)
RECURSIVE JoinOnPrices(_, _)
JoinOnPrices(os, ps) ==
    IF os = <<>> THEN <<>>
    ELSE LET Match(p) == SqlEq(Head(os).product_id, p.id)
             hit == SelectSeq(ps, Match)
         IN  [j \in 1..Len(hit) |-> hit[j].price] \o JoinOnPrices(Tail(os), ps)

\* FROM orders o, products p: every pair of rows.
RECURSIVE CrossJoin(_, _)
CrossJoin(os, ps) ==
    IF os = <<>> THEN <<>>
    ELSE [j \in 1..Len(ps) |-> [o |-> Head(os), p |-> ps[j]]]
         \o CrossJoin(Tail(os), ps)

JoinCols(d) ==
    /\ d["orders"].exists /\ d["products"].exists
    /\ "product_id" \in d["orders"].schema.cols
    /\ {"id", "price"} \subseteq d["products"].schema.cols

\* SELECT SUM(p.price) FROM orders AS o JOIN products AS p ON o.product_id = p.id
SumJoin(d) ==
    IF ~JoinCols(d) THEN [rows |-> <<>>, err |-> "no such table or column"]
    ELSE [rows |-> <<[sum |-> SumAgg(JoinOnPrices(d["orders"].rows,
                                                   d["products"].rows))]>>,
          err |-> "none"]

\* SELECT SUM(p.price) FROM orders o, products p WHERE p.id = o.product_id
SumCommaJoin(d) ==
    IF ~JoinCols(d) THEN [rows |-> <<>>, err |-> "no such table or column"]
    ELSE LET Where(x) == SqlEq(x.p.id, x.o.product_id)
             kept == SelectSeq(CrossJoin(d["orders"].rows, d["products"].rows),
                               Where)
         IN  [rows |-> <<[sum |-> SumAgg([j \in 1..Len(kept) |-> kept[j].p.price])]>>,
              err |-> "none"]

\* SQL comparison of two text values: NULL differs from nothing.
TextNe(a, b) == a # NullText /\ b # NullText /\ a # b

\* FROM orders o, customers c, products p
\* WHERE o.customer_id = c.id AND o.product_id = p.id, projected on
\* c.billing_country, o.delivery_country, p.price.
RECURSIVE ShippedLines(_, _, _)
ShippedLines(os, cs, ps) ==
    IF os = <<>> THEN <<>>
    ELSE LET o == Head(os)
             MatchC(c) == SqlEq(o.customer_id, c.id)
             MatchP(p) == SqlEq(o.product_id, p.id)
             hitC == SelectSeq(cs, MatchC)
             hitP == SelectSeq(ps, MatchP)
             pairs == [k \in 1..(Len(hitC) * Len(hitP)) |->
                         [bill |-> hitC[((k - 1) \div Len(hitP)) + 1].billing_country,
                          deliver |-> o.delivery_country,
                          price |-> hitP[((k - 1) % Len(hitP)) + 1].price]]
         IN  pairs \o ShippedLines(Tail(os), cs, ps)

\* The distinct values of a sequence, in the order they first appear.
RECURSIVE Distinct(_)
Distinct(s) ==
    IF s = <<>> THEN <<>>
    ELSE LET Other(x) == x # Head(s)
         IN  <<Head(s)>> \o Distinct(SelectSeq(Tail(s), Other))

\* GROUP BY bill, deliver with SUM(p.price) rev
GroupByBillDeliver(lines) ==
    LET keys == Distinct([k \in 1..Len(lines) |->
                            [bill |-> lines[k].bill, deliver |-> lines[k].deliver]])
    IN  [g \in 1..Len(keys) |->
            LET Mine(l) == l.bill = keys[g].bill /\ l.deliver = keys[g].deliver
                mine == SelectSeq(lines, Mine)
            IN  [bill |-> keys[g].bill, deliver |-> keys[g].deliver,
                 rev |-> SumAgg([k \in 1..Len(mine) |-> mine[k].price])]]

\* HAVING bill != deliver
HavingAny(g) == TRUE
Having(g) == TextNe(g.bill, g.deliver)

\* GROUP BY shp.bill with SUM(shp.rev) spent
GroupByBill(shp) ==
    LET keys == Distinct([k \in 1..Len(shp) |-> shp[k].bill])
    IN  [g \in 1..Len(keys) |->
            LET Mine(x) == x.bill = keys[g]
                mine == SelectSeq(shp, Mine)
            IN  [bill |-> keys[g],
                 spent |-> SumAgg([k \in 1..Len(mine) |-> mine[k].rev])]]

\* ORDER BY spent DESC.  The order of rows with the same spent is the
\* engine's: tiesFirst puts a row before the rows it ties with, or after.
RECURSIVE InsertDesc(_, _, _)
InsertDesc(sorted, r, tiesFirst) ==
    IF sorted = <<>> THEN <<r>>
    ELSE IF \/ r.spent > Head(sorted).spent
            \/ (tiesFirst /\ r.spent = Head(sorted).spent)
         THEN <<r>> \o sorted
         ELSE <<Head(sorted)>> \o InsertDesc(Tail(sorted), r, tiesFirst)

RECURSIVE OrderBySpentDesc(_, _)
OrderBySpentDesc(rows, tiesFirst) ==
    IF rows = <<>> THEN <<>>
    ELSE InsertDesc(OrderBySpentDesc(Tail(rows), tiesFirst), Head(rows), tiesFirst)

\* LIMIT 10
Limit == 10

LimitRows(rows) == SubSeq(rows, 1, IF Len(rows) < Limit THEN Len(rows) ELSE Limit)

SpendingCols(d) ==
    /\ \A t \in Tables : d[t].exists
    /\ {"customer_id", "product_id", "delivery_country"} \subseteq d["orders"].schema.cols
    /\ {"id", "billing_country"} \subseteq d["customers"].schema.cols
    /\ {"id", "price"} \subseteq d["products"].schema.cols

\* SELECT shp.bill, SUM(shp.rev) spent FROM (SELECT ... GROUP BY bill, deliver
\* HAVING bill != deliver) shp GROUP BY shp.bill ORDER BY spent DESC LIMIT 10
Spending(d, tiesFirst) ==
    IF ~SpendingCols(d) THEN [rows |-> <<>>, err |-> "no such table or column"]
    ELSE LET lines == ShippedLines(d["orders"].rows, d["customers"].rows,
                                   d["products"].rows)
             shp == SelectSeq(GroupByBillDeliver(lines), Having)
         IN  [rows |-> LimitRows(OrderBySpentDesc(GroupByBill(shp), tiesFirst)),
              err |-> "none"]

\* ------------------------------------------------------------------------
\* The rows of the INSERT cell.

Customer(i, n, a) == [id |-> i, name |-> n, billing_address |-> a]
Product(i, p) == [id |-> i, price |-> p]
Order(i, c, p, a) ==
    [id |-> i, customer_id |-> c, product_id |-> p, delivery_address |-> a]

LiteralCustomersShort ==
    <<Customer(435, "Omar", "Berlin, Germany"),
      Customer(5692, "Stuart", "Dover, UK")>>
LiteralCustomers ==
    <<Customer(435, "Omar", "Berlin, Germany"),
      Customer(5692, "Stuart", "Dover, UK"),
      Customer(6127, "Vidhya", "Mumbai, India")>>

LiteralProducts ==
    <<Product(103, 695), Product(4028, 3550), Product(3158, 10199),
      Product(2561, 2135), Product(89, 1695)>>

LiteralOrders1 ==
    <<Order(62353, 435, 103, "Munich, Germany"),
      Order(62353, 435, 4028, "Tunis, Tunisia")>>

LiteralOrders2 ==
    <<Order(64598, 5692, 103, "Dover, UK"),
      Order(65271, 5692, 103, "Dover, UK")>>

LiteralOrders3 ==
    <<Order(64921, 6127, 3158, "Mumbai, India"),
      Order(64989, 6127, 2561, "Mumbai, India"),
      Order(64989, 6127, 89, "Mumbai, India")>>

\* ------------------------------------------------------------------------
\* data/customers.csv, data/products.csv, data/orders.csv: "a larger version
\* of the above data set", with a country in place of each address.  The
\* files are not part of the notebook; each candidate content keeps the data
\* model of the three tables (unique ids, no missing value, every reference
\* resolved).

CsvCustomer(i, n, c) == [id |-> i, name |-> n, billing_country |-> c]
CsvOrder(i, c, p, a) ==
    [id |-> i, customer_id |-> c, product_id |-> p, delivery_country |-> a]

CustomerCols == {"id", "name", "billing_country"}
ProductCols == {"id", "price"}
OrderCols == {"id", "customer_id", "product_id", "delivery_country"}

CsvFilesA ==
    [customers |-> [cols |-> CustomerCols,
                    rows |-> <<CsvCustomer(10, "Ana", "India"),
                               CsvCustomer(200, "Bo", "Canada")>>],
     products |-> [cols |-> ProductCols,
                   rows |-> <<Product(1, 500), Product(2, 2500),
                              Product(3, 1200)>>],
     orders |-> [cols |-> OrderCols,
                 rows |-> <<CsvOrder(1, 10, 1, "India"),
                            CsvOrder(1, 10, 2, "Canada"),
                            CsvOrder(2, 200, 1, "Canada")>>]]

CsvFilesB ==
    [customers |-> [cols |-> CustomerCols,
                    rows |-> <<CsvCustomer(10, "Ana", "India"),
                               CsvCustomer(400, "Cy", "Spain"),
                               CsvCustomer(435, "Omar", "Germany")>>],
     products |-> [cols |-> ProductCols,
                   rows |-> <<Product(2, 2500), Product(103, 695)>>],
     orders |-> [cols |-> OrderCols,
                 rows |-> <<CsvOrder(7, 435, 103, "Tunisia"),
                            CsvOrder(7, 435, 103, "Tunisia"),
                            CsvOrder(8, 400, 2, "Spain"),
                            CsvOrder(9, 10, 2, "Spain")>>]]

\* Eleven billing countries, each with a line item delivered abroad, two of
\* them (the first two) with the same amount.
Countries11 ==
    <<"Chile", "Cuba", "Egypt", "Fiji", "Ghana", "Haiti",
      "Iran", "Japan", "Kenya", "Laos", "Mali">>

CsvFilesC ==
    [customers |-> [cols |-> CustomerCols,
                    rows |-> [i \in 1..11 |->
                                CsvCustomer(i, "Ana", Countries11[i])]],
     products |-> [cols |-> ProductCols,
                   rows |-> [i \in 1..11 |->
                               Product(i, IF i = 1 THEN 200 ELSE 100 * i)]],
     orders |-> [cols |-> OrderCols,
                 rows |-> [i \in 1..11 |-> CsvOrder(50 + i, i, i, "Peru")]
                          \o <<CsvOrder(70, 3, 5, "Egypt")>>]]

CsvFiles == {CsvFilesA, CsvFilesB, CsvFilesC}

NoFrames == [t \in Tables |-> [cols |-> {}, rows |-> <<>>]]

\* ------------------------------------------------------------------------
\* The notebook run.

NoStmt == [op |-> "none", table |-> "none", rows |-> <<>>, err |-> "none"]

Stmt(o, t, rows, e) == [op |-> o, table |-> t, rows |-> rows, err |-> e]

Init ==
    /\ db = [t \in Tables |-> Absent]
    /\ frames = NoFrames
    /\ csv \in CsvFiles
    /\ pc = "connect"
    /\ run = 1
    /\ nAdHoc = 0
    /\ last = NoStmt
    /\ out = <<>>

\* A statement of a cell that changes the database: on an error the cell
\* raises and the run stops there.
Exec(from, to, t, rows, res) ==
    /\ pc = from
    /\ db' = res.db
    /\ last' = Stmt(from, t, rows, res.err)
    /\ pc' = IF res.err = "none" THEN to ELSE "halted"
    /\ UNCHANGED <<frames, csv, run, nAdHoc, out>>

\* A query cell: its result set is the cell's output.
Query(from, to, t, res) ==
    /\ pc = from
    /\ out' = res.rows
    /\ last' = Stmt(from, t, <<>>, res.err)
    /\ pc' = IF res.err = "none" THEN to ELSE "halted"
    /\ UNCHANGED <<db, frames, csv, run, nAdHoc>>

\* %load_ext sql / %sql sqlite:///testdb.sqlite
Connect ==
    /\ pc = "connect"
    /\ pc' = "drop_customers"
    /\ last' = NoStmt
    /\ UNCHANGED <<db, frames, csv, run, nAdHoc, out>>

DropCustomers ==
    Exec("drop_customers", "drop_products", "customers", <<>>,
         DropTable(db, "customers"))

DropProducts ==
    Exec("drop_products", "drop_orders", "products", <<>>,
         DropTable(db, "products"))

DropOrders ==
    Exec("drop_orders", "create_customers", "orders", <<>>,
         DropTable(db, "orders"))

CreateCustomers ==
    Exec("create_customers", "create_products", "customers", <<>>,
         CreateTable(db, "customers"))

CreateProducts ==
    Exec("create_products", "create_orders", "products", <<>>,
         CreateTable(db, "products"))

CreateOrders ==
    Exec("create_orders", "select_empty", "orders", <<>>,
         CreateTable(db, "orders"))

SelectEmpty ==
    Query("select_empty", "insert_customers", "customers",
          SelectAll(db, "customers"))

InsertCustomers ==
    Exec("insert_customers", "insert_products", "customers", LiteralCustomers,
         InsertStmt(db, "customers", LiteralCustomers))

InsertProducts ==
    Exec("insert_products", "insert_orders_1", "products", LiteralProducts,
         InsertStmt(db, "products", LiteralProducts))

InsertOrders1 ==
    Exec("insert_orders_1", "insert_orders_2", "orders", LiteralOrders1,
         InsertStmt(db, "orders", LiteralOrders1))

InsertOrders2 ==
    Exec("insert_orders_2", "insert_orders_3", "orders", LiteralOrders2,
         InsertStmt(db, "orders", LiteralOrders2))

InsertOrders3 ==
    Exec("insert_orders_3", "select_customers", "orders", LiteralOrders3,
         InsertStmt(db, "orders", LiteralOrders3))

SelectCustomers ==
    Query("select_customers", "select_products", "customers",
          SelectAll(db, "customers"))

SelectProducts ==
    Query("select_products", "select_orders", "products",
          SelectAll(db, "products"))

SelectOrders ==
    Query("select_orders", "read_csv", "orders", SelectAll(db, "orders"))

\* conn = sqlite3.connect(...); the three pd.read_csv calls
ReadCsv ==
    /\ pc = "read_csv"
    /\ frames' = csv
    /\ pc' = "to_sql_customers"
    /\ last' = NoStmt
    /\ UNCHANGED <<db, csv, run, nAdHoc, out>>

ToSqlCustomers ==
    Exec("to_sql_customers", "to_sql_products", "customers",
         frames["customers"].rows, ToSql(db, "customers", frames["customers"]))

ToSqlProducts ==
    Exec("to_sql_products", "to_sql_orders", "products",
         frames["products"].rows, ToSql(db, "products", frames["products"]))

ToSqlOrders ==
    Exec("to_sql_orders", "sum_join", "orders",
         frames["orders"].rows, ToSql(db, "orders", frames["orders"]))

\* The filtering, sorting and grouping cells between the load and the joins
\* read the tables and leave them as they are; they are not modelled.
SumJoinCell == Query("sum_join", "sum_comma_join", "orders", SumJoin(db))

SumCommaJoinCell ==
    Query("sum_comma_join", "spending", "orders", SumCommaJoin(db))

\* The per-customer totals cell before it reads the tables only; it is not
\* modelled.
SpendingCell ==
    \E tiesFirst \in BOOLEAN :
        Query("spending", "done", "orders", Spending(db, tiesFirst))

\* The notebook is run again from the top (kernel restart): the Python
\* variables are gone, the database file is as the last statement left it.
Restart ==
    /\ pc # "connect"
    /\ run < MaxRuns
    /\ run' = run + 1
    /\ pc' = "connect"
    /\ frames' = NoFrames
    /\ last' = NoStmt
    /\ out' = <<>>
    /\ UNCHANGED <<db, csv, nAdHoc>>

Next ==
    \/ Connect
    \/ DropCustomers \/ DropProducts \/ DropOrders
    \/ CreateCustomers \/ CreateProducts \/ CreateOrders
    \/ SelectEmpty
    \/ InsertCustomers \/ InsertProducts
    \/ InsertOrders1 \/ InsertOrders2 \/ InsertOrders3
    \/ SelectCustomers \/ SelectProducts \/ SelectOrders
    \/ ReadCsv
    \/ ToSqlCustomers \/ ToSqlProducts \/ ToSqlOrders
    \/ SumJoinCell \/ SumCommaJoinCell \/ SpendingCell
    \/ Restart

Spec == Init /\ [][Next]_vars

\* ------------------------------------------------------------------------
\* The same session with INSERT statements typed in between the cells.

\* Text column of customers / orders under the table's current schema.
AddrCol(d, t) ==
    IF t = "customers"
    THEN (IF "billing_address" \in d[t].schema.cols
          THEN "billing_address" ELSE "billing_country")
    ELSE (IF "delivery_address" \in d[t].schema.cols
          THEN "delivery_address" ELSE "delivery_country")

CustomerRow(d, i, n, a) ==
    IF AddrCol(d, "customers") = "billing_address"
    THEN Customer(i, n, a) ELSE CsvCustomer(i, n, a)

OrderRow(d, i, c, p, a) ==
    IF AddrCol(d, "orders") = "delivery_address"
    THEN Order(i, c, p, a) ELSE CsvOrder(i, c, p, a)

AdHocStatements(d) ==
    {[table |-> "customers", rows |-> <<r>>] :
        r \in {CustomerRow(d, 435, "Omar", "Peru"),
               CustomerRow(d, 10, "Ana", "Peru"),
               CustomerRow(d, 7, "Dee", "Peru"),
               CustomerRow(d, NullNum, "Dee", "Peru"),
               CustomerRow(d, 7, NullText, "Peru"),
               CustomerRow(d, 7, "Dee", NullText)}}
    \cup {[table |-> "customers",
           rows |-> <<CustomerRow(d, 7, "Dee", "Peru"),
                      CustomerRow(d, 7, "Eli", "Peru")>>]}
    \cup {[table |-> "products", rows |-> <<r>>] :
            r \in {Product(103, 100), Product(2, 100), Product(7, 100),
                   Product(NullNum, 100), Product(7, NullNum)}}
    \cup {[table |-> "orders", rows |-> <<r>>] :
            r \in {OrderRow(d, 62353, 435, 89, "Peru"),
                   OrderRow(d, 7, 435, 103, "Peru"),
                   OrderRow(d, 62353, 999, 103, "Peru"),
                   OrderRow(d, 62353, 435, 999, "Peru"),
                   OrderRow(d, NullNum, 435, 103, "Peru"),
                   OrderRow(d, 7, NullNum, 103, "Peru"),
                   OrderRow(d, 7, 435, NullNum, "Peru"),
                   OrderRow(d, 7, 435, 103, NullText)}}

AdHocInsert ==
    /\ pc # "connect"
    /\ nAdHoc < MaxAdHoc
    /\ \E s \in AdHocStatements(db) :
          LET res == InsertStmt(db, s.table, s.rows)
          IN  /\ db[s.table].exists
              /\ db' = res.db
              /\ last' = Stmt("adhoc", s.table, s.rows, res.err)
    /\ nAdHoc' = nAdHoc + 1
    /\ UNCHANGED <<frames, csv, pc, run, out>>

NextInsert == Next \/ AdHocInsert

SpecInsert == Init /\ [][NextInsert]_vars

TypeOK ==
    /\ pc \in {"connect", "drop_customers", "drop_products", "drop_orders",
               "create_customers", "create_products", "create_orders",
               "select_empty", "insert_customers", "insert_products",
               "insert_orders_1", "insert_orders_2", "insert_orders_3",
               "select_customers", "select_products", "select_orders",
               "read_csv", "to_sql_customers", "to_sql_products",
               "to_sql_orders", "sum_join", "sum_comma_join", "spending",
               "done", "halted"}
    /\ run \in 1..MaxRuns
    /\ nAdHoc \in 0..MaxAdHoc
    /\ \A t \in Tables : db[t].exists \in BOOLEAN

\* ------------------------------------------------------------------------
\* Properties.

Rows(t) == db[t].rows

Count(rows, r) == Cardinality({i \in 1..Len(rows) : rows[i] = r})

\* The same rows, each as many times.
SameRows(a, b) ==
    /\ Len(a) = Len(b)
    /\ \A r \in Range(a) \cup Range(b) : Count(a, r) = Count(b, r)

\* Every row of a is still in b, as many times at least.
Keeps(a, b) == \A r \in Range(a) : Count(a, r) <= Count(b, r)

Declared(d, t) == d[t].exists /\ d[t].schema = DeclaredSchema(t)

AdHocStep == nAdHoc' # nAdHoc

HasNull(row) == \E c \in DOMAIN row : IsNullIn(row, c)

DropPcs == {"drop_customers", "drop_products", "drop_orders"}

StartCellPcs == {"connect"} \cup DropPcs
                \cup {"create_customers", "create_products", "create_orders"}

ToSqlPc(t) == IF t = "customers" THEN "to_sql_customers"
              ELSE IF t = "products" THEN "to_sql_products"
              ELSE "to_sql_orders"

\* C1: in every state of the run every orders row references a customers
\* row and a products row that exist.
C1_ReferentialIntegrity ==
    \A r \in Range(Rows("orders")) :
        /\ r.customer_id \in Ids(db, "customers")
        /\ r.product_id \in Ids(db, "products")

Dangling(d, row) ==
    \/ row.customer_id \notin Ids(d, "customers")
    \/ row.product_id \notin Ids(d, "products")

\* C2: an INSERT into orders of a row that references no customers row or
\* no products row fails with a foreign-key violation and changes nothing.
C2_DanglingInsertRejected ==
    [][(/\ AdHocStep
        /\ last'.table = "orders"
        /\ \E r \in Range(last'.rows) : ~HasNull(r) /\ Dangling(db, r))
       => (last'.err = "FOREIGN KEY" /\ db' = db)]_vars

OrdersOf(p) ==
    IF p = "insert_orders_1" THEN LiteralOrders1
    ELSE IF p = "insert_orders_2" THEN LiteralOrders2
    ELSE LiteralOrders3

InsertOrdersPcs == {"insert_orders_1", "insert_orders_2", "insert_orders_3"}

\* C3: when an INSERT INTO orders statement of the INSERT cell is about to
\* run, every customer and product its rows name is already in its table,
\* and the statement then goes through.
C3_ReferencedRowsFirst ==
    /\ pc \in InsertOrdersPcs =>
          \A r \in Range(OrdersOf(pc)) : ~Dangling(db, r)
    /\ last.op \in InsertOrdersPcs => last.err = "none"

C3_Witness ==
    /\ last.op = "insert_orders_3"
    /\ last.err = "none"
    /\ \A r \in Range(LiteralOrders3) : r \in Range(Rows("orders"))

EmptyDb ==
    [t \in Tables |->
        [exists |-> TRUE, schema |-> DeclaredSchema(t), rows |-> <<>>]]

RECURSIVE RunStmts(_, _)
RunStmts(d, stmts) ==
    IF stmts = <<>> THEN Ok(d)
    ELSE LET res == IF Head(stmts)[1] = "drop"
                    THEN DropTable(d, Head(stmts)[2])
                    ELSE CreateTable(d, Head(stmts)[2])
         IN  IF res.err # "none" THEN res ELSE RunStmts(res.db, Tail(stmts))

\* The drop-and-recreate cell run as a whole on database d.
DropCreateCell(d) ==
    RunStmts(d, <<<<"drop", "customers">>, <<"drop", "products">>,
                  <<"drop", "orders">>, <<"create", "customers">>,
                  <<"create", "products">>, <<"create", "orders">>>>)

\* C4: from whatever the database file holds, the drop-and-recreate cell
\* goes through without an error and leaves the three tables existing and
\* empty; the SELECT after it returns no row; a second run of the cell
\* changes nothing.
C4_DropCreateResets ==
    /\ last.op \in StartCellPcs => last.err = "none"
    /\ pc = "select_empty" => db = EmptyDb
    /\ last.op = "select_empty" => (last.err = "none" /\ out = <<>>)
    /\ DropCreateCell(db) = Ok(EmptyDb)
    /\ DropCreateCell(DropCreateCell(db).db) = DropCreateCell(db)

C4_Witness ==
    /\ run = 2
    /\ last.op = "select_empty"
    /\ out = <<>>
    /\ db = EmptyDb

KeyedTables == {"customers", "products"}

UniqueIds(t) ==
    \A i, j \in 1..Len(Rows(t)) : Rows(t)[i].id = Rows(t)[j].id => i = j

\* The statement would add a row whose id a row of the table, or an earlier
\* row of the statement, already has.
WouldDuplicate(d, t, rows) ==
    \E i \in 1..Len(rows) :
        /\ rows[i].id # NullNum
        /\ \/ rows[i].id \in Ids(d, t)
           \/ \E j \in 1..(i - 1) : rows[j].id = rows[i].id

DuplicateInsert ==
    /\ AdHocStep
    /\ last'.table \in KeyedTables
    /\ WouldDuplicate(db, last'.table, last'.rows)

\* C5 as stated: ids of customers and of products are unique in every state,
\* and an INSERT that repeats an id is rejected and changes nothing.
C5_Original ==
    /\ [](nAdHoc = 0 => \A t \in KeyedTables : UniqueIds(t))
    /\ [][DuplicateInsert => (last'.err # "none" /\ db' = db)]_vars

\* C5 amended: ids of customers and of products are unique in every state
\* of the run; an INSERT that repeats an id is rejected (UNIQUE) and changes
\* nothing while the table is the one the CREATE TABLE cell made; once the
\* bulk load has replaced the table, which to_sql creates without a key,
\* the INSERT is accepted and its rows are added.
C5_UniqueWhileDeclared ==
    /\ [](\A t \in KeyedTables :
            (nAdHoc = 0 \/ Declared(db, t)) => UniqueIds(t))
    /\ [][DuplicateInsert =>
            IF Declared(db, last'.table)
            THEN last'.err \in {"UNIQUE", "NOT NULL"} /\ db' = db
            ELSE /\ last'.err = "none"
                 /\ db'[last'.table].rows = db[last'.table].rows \o last'.rows]_vars

C5_Witness ==
    /\ last.op = "adhoc"
    /\ last.table = "customers"
    /\ last.err = "UNIQUE"
    /\ Declared(db, "customers")
    /\ \E r \in Range(last.rows) : r.id \in Ids(db, "customers")

NoNulls(t) == \A r \in Range(Rows(t)) : ~HasNull(r)

NullInsert ==
    /\ AdHocStep
    /\ \E r \in Range(last'.rows) : HasNull(r)

\* A null in a column other than an INTEGER PRIMARY KEY id.
NullOutsideKey(d, t, rows) ==
    \E r \in Range(rows) : \E c \in DOMAIN r :
        IsNullIn(r, c) /\ ~(d[t].schema.ipk /\ c = "id")

NarrativeCustomers ==
    <<Customer(435, "Omar", "Berlin, Germany"),
      Customer(5692, "Stuart", "Dover, UK"),
      Customer(6127, "Vidhya", "Mumbai, India")>>

NarrativeProducts ==
    <<Product(103, 695), Product(4028, 3550), Product(3158, 10199),
      Product(2561, 2135), Product(89, 1695)>>

NarrativeOrders ==
    <<Order(62353, 435, 103, "Munich, Germany"),
      Order(62353, 435, 4028, "Tunis, Tunisia"),
      Order(64598, 5692, 103, "Dover, UK"),
      Order(64921, 6127, 3158, "Mumbai, India"),
      Order(64989, 6127, 2561, "Mumbai, India"),
      Order(64989, 6127, 89, "Mumbai, India"),
      Order(65271, 5692, 103, "Dover, UK")>>

AfterInsertCellPcs == {"select_customers", "select_products", "select_orders"}

\* C7: after the drop-and-recreate cell and the INSERT cell the tables hold
\* exactly the rows of the narrative's normalized tables: three customers,
\* five products, seven orders lines, and the three SELECT * cells return
\* them.
C7_TablesMatchNarrative ==
    /\ pc \in AfterInsertCellPcs =>
          /\ SameRows(Rows("customers"), NarrativeCustomers)
          /\ SameRows(Rows("products"), NarrativeProducts)
          /\ SameRows(Rows("orders"), NarrativeOrders)
    /\ last.op = "select_customers" =>
          (Len(out) = 3 /\ SameRows(out, NarrativeCustomers))
    /\ last.op = "select_products" =>
          (Len(out) = 5 /\ SameRows(out, NarrativeProducts))
    /\ last.op = "select_orders" =>
          (Len(out) = 7 /\ SameRows(out, NarrativeOrders))

C7_Witness ==
    /\ last.op = "select_orders"
    /\ last.err = "none"
    /\ Len(out) = 7

\* The price of the product a line item names (nothing when it names none).
PriceOf(d, pid) ==
    LET named == {p \in Range(d["products"].rows) : p.id = pid}
    IN  IF named = {} THEN 0 ELSE (CHOOSE p \in named : TRUE).price

RECURSIVE LineItemSum(_, _)
LineItemSum(d, os) ==
    IF os = <<>> THEN 0
    ELSE PriceOf(d, Head(os).product_id) + LineItemSum(d, Tail(os))

\* One price for every line item, each counted once.
LineItemTotal(d) == LineItemSum(d, d["orders"].rows)

\* orders is not empty and every line item names exactly one product.
Resolved(d) ==
    /\ JoinCols(d)
    /\ d["orders"].rows # <<>>
    /\ \A o \in Range(d["orders"].rows) :
          Cardinality({j \in 1..Len(d["products"].rows) :
                          d["products"].rows[j].id = o.product_id}) = 1

\* C8: the two total-revenue cells return the same single total, the sum
\* over the orders rows of the price of the product each names, every line
\* item counted once; the two queries agree on every content the run
\* reaches.
C8_RevenueQueriesAgree ==
    /\ last.op = "sum_join" =>
          (last.err = "none" /\ out = <<[sum |-> LineItemTotal(db)]>>)
    /\ last.op = "sum_comma_join" =>
          (last.err = "none" /\ out = <<[sum |-> LineItemTotal(db)]>>)
    /\ SumJoin(db) = SumCommaJoin(db)
    /\ Resolved(db) => SumJoin(db).rows = <<[sum |-> LineItemTotal(db)]>>

C8_Witness ==
    /\ last.op = "sum_comma_join"
    /\ out = <<[sum |-> LineItemTotal(db)]>>
    /\ Len(Rows("orders")) > 1
    /\ \E i, j \in 1..Len(Rows("orders")) :
          i # j /\ Rows("orders")[i].product_id = Rows("orders")[j].product_id
    /\ \E p \in Range(Rows("products")) : p.id \notin
          {o.product_id : o \in Range(Rows("orders"))}

LaterStep == pc \notin StartCellPcs /\ pc' \notin StartCellPcs

\* C9 as stated: once the tables are created, no statement of the notebook
\* removes or changes a row of customers, products or orders.
C9_Original ==
    [][LaterStep => \A t \in Tables : Keeps(db[t].rows, db'[t].rows)]_vars

ToSqlPcs == {"to_sql_customers", "to_sql_products", "to_sql_orders"}

\* C9 amended: once the tables are created, the INSERT statements and the
\* queries only ever add rows; each to_sql call of the bulk load replaces
\* its table, dropping the table with every row it held and filling it with
\* the rows of the CSV file, and leaves the other two tables alone.
C9_RowsKeptUntilReplaced ==
    [][LaterStep =>
          \A t \in Tables :
              IF pc = ToSqlPc(t)
              THEN /\ db'[t].rows = frames[t].rows
                   /\ db'[t].schema = PandasSchema(frames[t])
              ELSE /\ Keeps(db[t].rows, db'[t].rows)
                   /\ db'[t].schema = db[t].schema]_vars

C9_Witness ==
    /\ last.op = "to_sql_orders"
    /\ last.err = "none"
    /\ Rows("orders") = csv["orders"].rows
    /\ \A r \in Range(NarrativeOrders) : r \notin Range(Rows("orders"))

\* The statement adds a line item to an order that already has one.
RepeatedOrderId ==
    /\ AdHocStep
    /\ last'.table = "orders"
    /\ \A r \in Range(last'.rows) : ~HasNull(r) /\ r.id \in Ids(db, "orders")

\* C10: an INSERT of an orders row with the id of an existing orders row is
\* accepted, the new row is stored next to the old ones, and every orders
\* row stays in the table until the table is dropped or replaced.
C10_OrderIdNotAKey ==
    /\ [][RepeatedOrderId =>
            /\ last'.err = "none"
            /\ db'["orders"].rows = db["orders"].rows \o last'.rows]_vars
    /\ [][pc \notin {"drop_orders", "to_sql_orders"} =>
            /\ Len(db["orders"].rows) <= Len(db'["orders"].rows)
            /\ \A i \in 1..Len(db["orders"].rows) :
                  db'["orders"].rows[i] = db["orders"].rows[i]]_vars
    /\ [](last.op \in {"insert_orders_1", "insert_orders_3"} =>
            /\ last.err = "none"
            /\ \A r \in Range(last.rows) :
                  Cardinality({i \in 1..Len(Rows("orders")) :
                                  Rows("orders")[i].id = r.id}) >= 1
            /\ \E i, j \in 1..Len(Rows("orders")) :
                  /\ i # j
                  /\ Rows("orders")[i].id = Rows("orders")[j].id
                  /\ Rows("orders")[i] \in Range(last.rows)
                  /\ Rows("orders")[j] \in Range(last.rows))

C10_Witness ==
    /\ last.op = "adhoc"
    /\ last.table = "orders"
    /\ last.err = "none"
    /\ Declared(db, "orders")
    /\ \E i, j \in 1..Len(Rows("orders")) :
          /\ i < j
          /\ Rows("orders")[i].id = Rows("orders")[j].id
          /\ Rows("orders")[i] # Rows("orders")[j]
          /\ Rows("orders")[j] \in Range(last.rows)

\* The billing country of the customer a line item names.
BillOf(d, cid) ==
    LET named == {c \in Range(d["customers"].rows) : c.id = cid}
    IN  IF named = {} THEN NullText ELSE (CHOOSE c \in named : TRUE).billing_country

\* The line item is billed in country b and delivered to another country.
International(d, o, b) ==
    /\ b # NullText
    /\ BillOf(d, o.customer_id) = b
    /\ o.delivery_country # b

RECURSIVE IntlSum(_, _, _)
IntlSum(d, os, b) ==
    IF os = <<>> THEN 0
    ELSE (IF International(d, Head(os), b)
          THEN PriceOf(d, Head(os).product_id) ELSE 0)
         + IntlSum(d, Tail(os), b)

\* What billing country b spent on line items delivered abroad.
IntlTotal(d, b) == IntlSum(d, d["orders"].rows, b)

\* The billing countries with a line item delivered abroad.
Qualifying(d) ==
    {b \in {c.billing_country : c \in Range(d["customers"].rows)} :
        \E o \in Range(d["orders"].rows) : International(d, o, b)}

NonIncreasing(rows) ==
    \A i \in 1..(Len(rows) - 1) : rows[i].spent >= rows[i + 1].spent

====
